---- MODULE Spec2Model ----
(***************************************************************************)
(* Model of the communication profiler of cubework                         *)
(* (cubework/utils/profiling/communication.py) and of the epoch loops of   *)
(* benchmark/train.py that drive it.                                       *)
(*                                                                         *)
(* Abstractions: Python floats are modelled as exact rationals (a record   *)
(* [num, den] in lowest terms); time.time() reads a non-decreasing integer *)
(* counter `clock`; a tensor is the pair of what the wrappers read from it *)
(* (element_size(), numel()).  The metrics of cubework/module/metric and   *)
(* the reducers of train.py hold scalar tensors, modelled by their value;  *)
(* a float result is a rational, nan, an infinity, or exp of a rational.   *)
(***************************************************************************)
EXTENDS Integers, Sequences, FiniteSets, TLC

\* ------------------------------------------------------------------ bounds
MaxClock == 2
MaxCalls == 2
MaxWaits == 2
MaxP == 2
MaxNumel == 1
MaxSteps == 2
MaxForwards == 2
MaxColls == 2
MaxScalar == 3
MaxGA == 3
MaxWorld == 4

\* ------------------------------------------------------------------ values
\* Python's None, and a present value v, as sequences of length 0 and 1.
None == << >>
Some(v) == << v >>

RECURSIVE Gcd(_, _)
Gcd(a, b) == IF b = 0 THEN a ELSE Gcd(b, a % b)

\* Exact rationals with a positive denominator, in lowest terms.
Rat(n, d) ==
    LET g == Gcd(IF n < 0 THEN -n ELSE n, d)
    IN  [num |-> n \div g, den |-> d \div g]
RZero == [num |-> 0, den |-> 1]
RInt(n) == [num |-> n, den |-> 1]
RAdd(x, y) == Rat(x.num * y.den + y.num * x.den, x.den * y.den)
RSub(x, y) == Rat(x.num * y.den - y.num * x.den, x.den * y.den)
RMul(x, y) == Rat(x.num * y.num, x.den * y.den)
\* x / y for y # 0.
RDiv(x, y) ==
    IF y.num > 0 THEN Rat(x.num * y.den, x.den * y.num)
    ELSE Rat(-(x.num * y.den), x.den * (-y.num))

\* What a float tensor can hold: a number, nan, +inf, -inf, or e to a rational power.
Num(x) == [kind |-> "num", num |-> x.num, den |-> x.den]
NaN == [kind |-> "nan", num |-> 0, den |-> 1]
PosInf == [kind |-> "inf", num |-> 1, den |-> 1]
NegInf == [kind |-> "inf", num |-> -1, den |-> 1]
ExpOf(x) == IF x.num = 0 THEN Num(RInt(1)) ELSE [kind |-> "exp", num |-> x.num, den |-> x.den]

\* tensor / number in torch: division by zero raises nothing, it gives nan or an infinity.
TrueDiv(x, y) ==
    IF y.num # 0 THEN Num(RDiv(x, y))
    ELSE IF x.num = 0 THEN NaN
    ELSE IF x.num > 0 THEN PosInf ELSE NegInf

\* torch.exp
torch_exp(v) ==
    CASE v.kind = "num" -> ExpOf([num |-> v.num, den |-> v.den])
      [] v.kind = "nan" -> NaN
      [] v.kind = "inf" -> IF v.num > 0 THEN PosInf ELSE Num(RZero)
      [] OTHER -> v

\* The five collective primitives of torch.distributed that are wrapped.
Prims == {"all_reduce", "all_gather", "reduce_scatter", "broadcast", "reduce"}
ListPrims == {"all_gather", "reduce_scatter"}

\* Element widths in bytes (torch.float, torch.int) and tensors as the wrappers see them.
ElementSizes == {4}
Tensors == [element_size : ElementSizes, numel : 1..MaxNumel]
\* torch takes one tensor, or for the list primitives one chunk per rank of the group,
\* all of one shape.
Payloads(prim, P) ==
    IF prim \in ListPrims THEN {[i \in 1..P |-> t] : t \in Tensors}
    ELSE {<< t >> : t \in Tensors}
UnitPayload == << [element_size |-> 4, numel |-> 1] >>

VARIABLES
    running_ops,   \* CommProfiler.running_ops
    total_cnt,     \* CommProfiler.total_cnt
    total_vol,     \* CommProfiler.total_vol (rational)
    total_time,    \* CommProfiler.total_time (clock units)
    start_time,    \* CommProfiler.start_time: None or Some(clock)
    dist,          \* torch.distributed's five entry points: "torch" or "wrapper"
    clock,         \* time.time()
    handles,       \* the CommHandler objects returned so far, in issue order
    calls,         \* number of calls made through the dist entry points
    nest,          \* the caller's start() calls not yet matched by a stop()
    issue01,       \* clock of the latest issue that took running_ops from 0 to 1
    last,          \* the latest operation, its arguments and its outcome
    pc,            \* "api": free use of the profiler; otherwise the position in train()
    step,          \* loop index i of _train / _test
    num_steps,     \* num_steps of _train / _test
    env,           \* [use_comm_profiler, rank0]: set once by train()
    dp,            \* the data-parallel group: its ranks' metrics and reductions
    opt,           \* _train's optimizer: the arguments that steer it and what it did
    pg             \* initialize_distributed: its configuration and the groups it made

session_vars == <<running_ops, total_cnt, total_vol, total_time, start_time>>
driver_vars == <<pc, step, num_steps, env>>
rest_vars == <<driver_vars, dp, opt, pg>>
vars == <<running_ops, total_cnt, total_vol, total_time, start_time, dist, clock,
          handles, calls, nest, issue01, last, pc, step, num_steps, env, dp, opt, pg>>

\* The profiler's fields as one record.
Session ==
    [running_ops |-> running_ops, total_cnt |-> total_cnt, total_vol |-> total_vol,
     total_time |-> total_time, start_time |-> start_time]

SetSession(s) ==
    /\ running_ops' = s.running_ops
    /\ total_cnt' = s.total_cnt
    /\ total_vol' = s.total_vol
    /\ total_time' = s.total_time
    /\ start_time' = s.start_time

\* ------------------------------------------------------------ CommProfiler
\* reset as it would be with the line `self.total_time = 0` missing.
reset_keeps_time(s) ==
    [running_ops |-> 0, total_cnt |-> 0, total_vol |-> RZero,
     total_time |-> s.total_time, start_time |-> None]

\* reset as it would be with the line `self.running_ops = 0` missing.
reset_keeps_running(s) ==
    [running_ops |-> s.running_ops, total_cnt |-> 0, total_vol |-> RZero,
     total_time |-> 0, start_time |-> None]

\* CommProfiler.__init__ / CommProfiler.reset
reset(s) ==
    [running_ops |-> 0, total_cnt |-> 0, total_vol |-> RZero, total_time |-> 0,
     start_time |-> None]

\* new as it would be without the `if self.start_time is None` guard.
new_restarts_window(s, vol, now) ==
    [s EXCEPT !.running_ops = @ + 1,
              !.total_cnt = @ + 1,
              !.total_vol = RAdd(@, vol),
              !.start_time = Some(now)]

\* CommProfiler.new
new(s, vol, now) ==
    [s EXCEPT !.running_ops = @ + 1,
              !.total_cnt = @ + 1,
              !.total_vol = RAdd(@, vol),
              !.start_time = IF @ = None THEN Some(now) ELSE @]

\* finish as it would be with the line `self.start_time = None` missing.
finish_keeps_start(s, now) ==
    LET s1 == [s EXCEPT !.running_ops = @ - 1]
    IN  IF s1.running_ops = 0 /\ s.start_time # None
        THEN [s1 EXCEPT !.total_time = @ + (now - s.start_time[1])]
        ELSE s1

\* CommProfiler.finish raises TypeError when it subtracts None from time.time().
finish_raises(s) == s.running_ops - 1 = 0 /\ s.start_time = None

\* CommProfiler.finish
finish(s, now) ==
    LET s1 == [s EXCEPT !.running_ops = @ - 1]
    IN  IF s1.running_ops = 0 /\ ~finish_raises(s)
        THEN [s1 EXCEPT !.total_time = @ + (now - s.start_time[1]),
                        !.start_time = None]
        ELSE s1

\* CommProfiler.start: rebinds the five entry points to the wrappers.
start_bindings == [p \in Prims |-> "wrapper"]

\* CommProfiler.stop: rebinds the five entry points to the saved originals.
stop_bindings == [p \in Prims |-> "torch"]

\* The value CommProfiler.stop returns: the method has no return statement.
stop_result(s) == None

\* ------------------------------------------------------ the five wrappers
Bytes(t) == t.element_size * t.numel

RECURSIVE SumBytes(_)
SumBytes(ts) == IF ts = << >> THEN 0 ELSE Bytes(Head(ts)) + SumBytes(Tail(ts))

\* all_reduce with the correction of the list primitives, (comm_size - 1) / comm_size.
all_reduce_vol_once(P, ts) == RMul(Rat(P - 1, P), RInt(Bytes(ts[1])))

\* all_reduce: correction = 2 * (comm_size - 1) / comm_size
all_reduce_vol(P, ts) == RMul(Rat(2 * (P - 1), P), RInt(Bytes(ts[1])))

\* reduce_scatter with the correction 1 / comm_size.
reduce_scatter_vol_share(P, ts) == RMul(RInt(SumBytes(ts)), Rat(1, P))

\* reduce_scatter: the sum over input_list, times (comm_size - 1) / comm_size
reduce_scatter_vol(P, ts) == RMul(RInt(SumBytes(ts)), Rat(P - 1, P))

\* all_gather: the sum over tensor_list, times (comm_size - 1) / comm_size
all_gather_vol(P, ts) == RMul(RInt(SumBytes(ts)), Rat(P - 1, P))

\* broadcast: 1.0 * element_size * numel
broadcast_vol(P, ts) == RInt(Bytes(ts[1]))

\* reduce: 1.0 * element_size * numel
reduce_vol(P, ts) == RInt(Bytes(ts[1]))

comm_vol(prim, P, ts) ==
    CASE prim = "all_reduce" -> all_reduce_vol(P, ts)
      [] prim = "reduce_scatter" -> reduce_scatter_vol(P, ts)
      [] prim = "all_gather" -> all_gather_vol(P, ts)
      [] prim = "broadcast" -> broadcast_vol(P, ts)
      [] prim = "reduce" -> reduce_vol(P, ts)

\* CommHandler.wait as it would be without the call of prof.finish().
handler_wait_nofinish(s, now) == s

\* CommHandler.wait: work.wait(), then prof.finish()
handler_wait(s, now) == finish(s, now)

\* A wrapper whose primitive returned with async_op false: new at t0, finish at t1.
wrapper_sync(s, vol, t0, t1) == finish(new(s, vol, t0), t1)

\* A wrapper that calls profiler.finish() before it looks at async_op.
wrapper_issue_finishes(s, vol, t0) == finish(new(s, vol, t0), t0)

\* A wrapper that returned a CommHandler, or whose primitive raised: new only.
wrapper_issue(s, vol, t0) == new(s, vol, t0)

\* A CommHandler: how often it was awaited, whether the caller discarded it unawaited,
\* and whether a reset() came while it was still unawaited.
NewHandle == [waits |-> 0, dropped |-> FALSE, stale |-> FALSE]
Pending(h) == handles[h].waits = 0 /\ ~handles[h].dropped

\* The record of the latest operation.  w follows the sequence reset(), start(),
\* stop() with no collective issued or completed in between.
NoLast ==
    [op |-> "init", fn |-> "none", prim |-> "none", P |-> 0, tensors |-> << >>,
     async_op |-> FALSE, wrapped |-> FALSE, raised |-> "none", h |-> 0,
     first |-> FALSE, direct |-> FALSE, before |-> None, t0 |-> 0, ret |-> None,
     w |-> "none"]

\* One call of dist.<prim>(..., group of size P, async_op) by the application or by
\* the tensor engine.  `fails`: the underlying torch primitive raises; d: the time a
\* blocking primitive takes.
Collective(prim, P, ts, async_op, fails, d) ==
    LET wrapped == dist[prim] = "wrapper"
        vol == comm_vol(prim, P, ts)
        t1 == IF async_op THEN clock ELSE clock + d
        completes == wrapped /\ ~async_op /\ ~fails
        returns_handler == wrapped /\ async_op /\ ~fails
    IN  /\ calls < MaxCalls
        /\ t1 <= MaxClock
        /\ async_op => d = 0
        /\ calls' = calls + 1
        /\ clock' = t1
        /\ IF ~wrapped THEN UNCHANGED session_vars
           ELSE IF completes THEN SetSession(wrapper_sync(Session, vol, clock, t1))
           ELSE SetSession(wrapper_issue(Session, vol, clock))
        /\ handles' = IF returns_handler THEN Append(handles, NewHandle) ELSE handles
        /\ issue01' = IF wrapped /\ running_ops = 0 THEN Some(clock) ELSE issue01
        /\ last' = [NoLast EXCEPT
                      !.op = "call", !.prim = prim, !.P = P, !.tensors = ts,
                      !.async_op = async_op, !.wrapped = wrapped,
                      !.raised = IF fails THEN "CommError"
                                 ELSE IF completes
                                         /\ finish_raises(new(Session, vol, clock))
                                 THEN "TypeError"
                                 ELSE "none",
                      !.h = IF returns_handler THEN Len(handles) + 1 ELSE 0,
                      !.before = IF returns_handler THEN Some(Session) ELSE None,
                      !.t0 = clock]
        /\ UNCHANGED <<dist, nest>>

\* handle.wait() on the h-th CommHandler.
WaitOn(h) ==
    /\ ~handles[h].dropped
    /\ handles[h].waits < MaxWaits
    /\ SetSession(handler_wait(Session, clock))
    /\ handles' = [handles EXCEPT ![h].waits = @ + 1]
    /\ last' = [NoLast EXCEPT
                  !.op = "wait", !.h = h,
                  !.raised = IF finish_raises(Session) THEN "TypeError" ELSE "none",
                  !.first = handles[h].waits = 0,
                  !.direct = last.op = "call" /\ last.h = h]
    /\ UNCHANGED <<dist, clock, calls, nest, issue01>>

\* The caller discards the h-th handle without ever awaiting it.
DropOn(h) ==
    /\ Pending(h)
    /\ handles' = [handles EXCEPT ![h].dropped = TRUE]
    /\ last' = [NoLast EXCEPT !.op = "drop", !.h = h, !.w = last.w]
    /\ UNCHANGED <<session_vars, dist, clock, calls, nest, issue01>>

DoReset ==
    /\ SetSession(reset(Session))
    /\ handles' = [h \in DOMAIN handles |->
                      [handles[h] EXCEPT !.stale = handles[h].waits = 0]]
    /\ UNCHANGED <<clock, calls, issue01>>

DoStart ==
    /\ nest < 2
    /\ dist' = start_bindings
    /\ nest' = nest + 1

DoStop ==
    /\ dist' = stop_bindings
    /\ nest' = IF nest > 0 THEN nest - 1 ELSE 0

\* ------------------------------------------------- cubework.distributed
RECURSIVE IntSum(_, _)
IntSum(xs, n) == IF n = 0 THEN 0 ELSE xs[n] + IntSum(xs, n - 1)

RECURSIVE SumOver(_, _)
SumOver(xs, n) == IF n = 0 THEN RZero ELSE RAdd(xs[n], SumOver(xs, n - 1))

\* cubework.distributed.all_reduce(tensor, pm.DATA), blocking, op SUM.  xs[r] is the
\* tensor rank r hands in, a sequence of its elements; every rank calls it (collectives
\* are barriers).  The result is delivered in the tensor that was handed in, which is
\* also what is returned: out[r] is both.
all_reduce(xs) ==
    LET P == Len(xs)
        total == [i \in DOMAIN xs[1] |-> SumOver([r \in 1..P |-> xs[r][i]], P)]
    IN  [r \in 1..P |-> total]

\* ------------------------------------------------- Accuracy and Perplexity
\* Accuracy.reset
Accuracy_reset == [total_correct |-> 0, total_samples |-> 0]

\* Accuracy.forward: the accumulator after a batch of batch_size targets of which
\* self.acc counted `correct`.
Accuracy_forward(a, batch_size, correct) ==
    [a EXCEPT !.total_samples = @ + batch_size, !.total_correct = @ + correct]

\* Accuracy.value with the ratio taken of the local counts, before the reduction.
Accuracy_value_local(acc) ==
    [state |-> acc,
     ret |-> [r \in DOMAIN acc |->
                 TrueDiv(RInt(acc[r].total_correct), RInt(acc[r].total_samples))]]

\* Accuracy.value on every rank of the group: torch.stack makes a new tensor, which is
\* reduced; the accumulators are not written.
Accuracy_value(acc) ==
    LET reduced_values ==
            all_reduce([r \in DOMAIN acc |->
                           << RInt(acc[r].total_correct), RInt(acc[r].total_samples) >>])
    IN  [state |-> acc,
         ret |-> [r \in DOMAIN acc |-> TrueDiv(reduced_values[r][1], reduced_values[r][2])]]

\* Perplexity.reset
Perplexity_reset == [cnt |-> 0, total_loss |-> RZero]

\* Perplexity.forward
Perplexity_forward(p, loss) ==
    [p EXCEPT !.cnt = @ + 1, !.total_loss = RAdd(@, loss)]

\* Perplexity.value with the division by self.cnt alone.
Perplexity_value_per_rank(ppl) ==
    LET reduced == all_reduce([r \in DOMAIN ppl |-> << ppl[r].total_loss >>])
    IN  [state |-> [r \in DOMAIN ppl |-> [ppl[r] EXCEPT !.total_loss = reduced[r][1]]],
         ret |-> [r \in DOMAIN ppl |->
                     torch_exp(TrueDiv(reduced[r][1], RInt(ppl[r].cnt)))]]

\* Perplexity.value on every rank of the group: self.total_loss itself is handed to
\* all_reduce, so it holds the group's sum afterwards; pm.DATA.world_size is the
\* number of ranks.
Perplexity_value(ppl) ==
    LET reduced == all_reduce([r \in DOMAIN ppl |-> << ppl[r].total_loss >>])
    IN  [state |-> [r \in DOMAIN ppl |-> [ppl[r] EXCEPT !.total_loss = reduced[r][1]]],
         ret |-> [r \in DOMAIN ppl |->
                     torch_exp(TrueDiv(reduced[r][1], RInt(ppl[r].cnt * Len(ppl))))]]

\* ------------------------------------------------- the reducers of train.py
\* ts[r] is the scalar tensor rank r passes.  Each gives what is returned (ret), what
\* the passed tensors hold afterwards (state), what was handed to all_reduce (sent,
\* empty if nothing was) and the number of collectives issued (colls).
_data_parallel_sum_unguarded(ts) ==
    LET out == all_reduce([r \in DOMAIN ts |-> << ts[r] >>])
    IN  [ret |-> [r \in DOMAIN ts |-> Num(out[r][1])],
         state |-> [r \in DOMAIN ts |-> out[r][1]], sent |-> ts, colls |-> 1]

\* _data_parallel_sum
_data_parallel_sum(ts) ==
    IF Len(ts) > 1
    THEN LET out == all_reduce([r \in DOMAIN ts |-> << ts[r] >>])
         IN  [ret |-> [r \in DOMAIN ts |-> Num(out[r][1])],
              state |-> [r \in DOMAIN ts |-> out[r][1]], sent |-> ts, colls |-> 1]
    ELSE [ret |-> [r \in DOMAIN ts |-> Num(ts[r])], state |-> ts, sent |-> << >>,
          colls |-> 0]

\* _data_parallel_mean with the division applied to the operand of the collective.
_data_parallel_mean_divides_first(ts) ==
    IF Len(ts) > 1
    THEN LET scaled == [r \in DOMAIN ts |-> RDiv(ts[r], RInt(Len(ts)))]
             out == all_reduce([r \in DOMAIN ts |-> << scaled[r] >>])
         IN  [ret |-> [r \in DOMAIN ts |-> Num(out[r][1])],
              state |-> ts, sent |-> scaled, colls |-> 1]
    ELSE [ret |-> [r \in DOMAIN ts |-> Num(ts[r])], state |-> ts, sent |-> << >>,
          colls |-> 0]

\* _data_parallel_mean
_data_parallel_mean(ts) ==
    IF Len(ts) > 1
    THEN LET out == all_reduce([r \in DOMAIN ts |-> << ts[r] >>])
         IN  [ret |-> [r \in DOMAIN ts |-> TrueDiv(out[r][1], RInt(Len(ts)))],
              state |-> [r \in DOMAIN ts |-> out[r][1]], sent |-> ts, colls |-> 1]
    ELSE [ret |-> [r \in DOMAIN ts |-> Num(ts[r])], state |-> ts, sent |-> << >>,
          colls |-> 0]

\* ------------------------------------------------- the data-parallel group
\* A group of P ranks: each rank's Accuracy and Perplexity, the scalar tensor t each
\* rank holds for the reducers, the latest joint operation (op), what it returned on
\* each rank (ret), what it handed to all_reduce (sent), and the number of all_reduce
\* calls so far (colls).
DataInit(P) ==
    [P |-> P,
     acc |-> [r \in 1..P |-> Accuracy_reset],
     ppl |-> [r \in 1..P |-> Perplexity_reset],
     t |-> [r \in 1..P |-> RZero],
     op |-> "none", ret |-> << >>, sent |-> << >>, colls |-> 0]
NoData == DataInit(1)

\* What the metrics and the reducers leave alone: the profiler is not started.
profiler_vars ==
    <<session_vars, dist, clock, handles, calls, nest, issue01, last, driver_vars, opt, pg>>

Losses == {1, 2}
BatchSizes == {4}

\* metric(logits, targets, loss) on one rank, for a batch of which `correct` are right.
AccForward ==
    /\ \E r \in 1..dp.P, batch_size \in BatchSizes :
          \E correct \in 0..batch_size :
             /\ dp.acc[r].total_samples < MaxForwards * batch_size
             /\ dp' = [dp EXCEPT !.acc[r] = Accuracy_forward(@, batch_size, correct),
                                 !.op = "none", !.ret = << >>]
    /\ UNCHANGED profiler_vars

AccReset ==
    /\ \E r \in 1..dp.P :
          dp' = [dp EXCEPT !.acc[r] = Accuracy_reset, !.op = "none", !.ret = << >>]
    /\ UNCHANGED profiler_vars

\* metric.value() on every rank of the group.
AccValue ==
    /\ dp.colls < MaxColls
    /\ LET v == Accuracy_value(dp.acc)
       IN  dp' = [dp EXCEPT !.acc = v.state, !.op = "acc_value", !.ret = v.ret,
                            !.colls = @ + 1]
    /\ UNCHANGED profiler_vars

\* metric(logits, targets, loss) on one rank; MaxForwards batches in the whole group.
PplForward ==
    /\ \E r \in 1..dp.P, loss \in Losses :
          /\ IntSum([q \in 1..dp.P |-> dp.ppl[q].cnt], dp.P) < MaxForwards
          /\ dp' = [dp EXCEPT !.ppl[r] = Perplexity_forward(@, RInt(loss)),
                              !.op = "none", !.ret = << >>]
    /\ UNCHANGED profiler_vars

PplReset ==
    /\ \E r \in 1..dp.P :
          dp' = [dp EXCEPT !.ppl[r] = Perplexity_reset, !.op = "none", !.ret = << >>]
    /\ UNCHANGED profiler_vars

PplValue ==
    /\ dp.colls < MaxColls
    /\ LET v == Perplexity_value(dp.ppl)
       IN  dp' = [dp EXCEPT !.ppl = v.state, !.op = "ppl_value", !.ret = v.ret,
                            !.colls = @ + 1]
    /\ UNCHANGED profiler_vars

\* Every rank computes a new scalar to reduce.
Assign ==
    /\ \E xs \in [1..dp.P -> 0..MaxScalar] :
          dp' = [dp EXCEPT !.t = [r \in 1..dp.P |-> RInt(xs[r])],
                           !.op = "none", !.ret = << >>, !.sent = << >>]
    /\ UNCHANGED profiler_vars

\* A reducer called on every rank of the group with its t.
Reduce(op, v) ==
    /\ dp.colls + v.colls <= MaxColls
    /\ dp' = [dp EXCEPT !.t = v.state, !.op = op, !.ret = v.ret, !.sent = v.sent,
                        !.colls = @ + v.colls]
    /\ UNCHANGED profiler_vars

ReduceSum == Reduce("sum", _data_parallel_sum(dp.t))
ReduceMean == Reduce("mean", _data_parallel_mean(dp.t))

\* ------------------------------------------------- free use of the profiler
Api == pc = "api"

\* A collective with any payload on any group; the clock is left alone.
Call ==
    /\ Api
    /\ \E prim \in Prims, P \in 1..MaxP, async_op \in BOOLEAN, fails \in BOOLEAN :
          \E ts \in Payloads(prim, P) : Collective(prim, P, ts, async_op, fails, 0)
    /\ UNCHANGED rest_vars

\* A collective that takes any time the clock allows, with the unit payload.
TimedCall ==
    /\ Api
    /\ \E prim \in Prims, async_op \in BOOLEAN, fails \in BOOLEAN,
          d \in 0..(MaxClock - clock) :
          Collective(prim, MaxP, UnitPayload, async_op, fails, d)
    /\ UNCHANGED rest_vars

Wait ==
    /\ Api
    /\ \E h \in DOMAIN handles : WaitOn(h)
    /\ UNCHANGED rest_vars

WaitOnce ==
    /\ Api
    /\ \E h \in DOMAIN handles : handles[h].waits = 0 /\ WaitOn(h)
    /\ UNCHANGED rest_vars

Drop ==
    /\ Api
    /\ \E h \in DOMAIN handles : DropOn(h)
    /\ UNCHANGED rest_vars

\* comm_profiler.reset() at any moment.
Reset ==
    /\ Api
    /\ DoReset
    /\ last' = [NoLast EXCEPT !.op = "reset", !.w = "reset"]
    /\ UNCHANGED <<dist, nest, rest_vars>>

\* reset() once every handle issued so far was awaited or discarded.
ResetQuiet ==
    /\ \A h \in DOMAIN handles : ~Pending(h)
    /\ Reset

\* reset() while no collective is outstanding.
ResetIdle ==
    /\ running_ops = 0
    /\ \A h \in DOMAIN handles : handles[h].waits > 0
    /\ Reset

Start ==
    /\ Api
    /\ DoStart
    /\ last' = [NoLast EXCEPT !.op = "start",
                              !.w = IF last.w = "reset" THEN "started" ELSE "none"]
    /\ UNCHANGED <<session_vars, clock, handles, calls, issue01, rest_vars>>

Stop ==
    /\ Api
    /\ DoStop
    /\ last' = [NoLast EXCEPT !.op = "stop", !.ret = stop_result(Session),
                              !.w = IF last.w = "started" THEN "stopped" ELSE "none"]
    /\ UNCHANGED <<session_vars, clock, handles, calls, issue01, rest_vars>>

Tick ==
    /\ clock < MaxClock
    /\ pc \notin {"done", "raised"}
    /\ clock' = clock + 1
    /\ UNCHANGED <<session_vars, dist, handles, calls, nest, issue01, last, rest_vars>>

\* ------------------------------------------------- cubework/initialize.py
\* The modes env.mode may take, and one that it may not.
ALLOWED_MODES == {None, Some("1d"), Some("2d"), Some("3d")}
Modes == ALLOWED_MODES \cup {Some("4d")}

\* initialize.py:27, with // as the floor division of non-negative integers.
data_parallel_size(world_size, tensor_parallel_size) ==
    IF tensor_parallel_size = None THEN world_size
    ELSE world_size \div tensor_parallel_size[1]

\* A process before initialize_distributed: WORLD_SIZE and the arguments --tp and
\* --tp_size (None when not given); no group exists yet.
Config(world_size, tensor_parallel, tensor_parallel_size) ==
    [world_size |-> world_size, tensor_parallel |-> tensor_parallel,
     tensor_parallel_size |-> tensor_parallel_size,
     data |-> None, tensor |-> None, raised |-> "none", done |-> FALSE]
NoGroups == Config(1, None, None)

\* cube_dist.init_data_parallel(d): the data-parallel groups have size d; a group has
\* at least one member.
init_data_parallel(g, d) ==
    IF d < 1 THEN [g EXCEPT !.raised = "ValueError", !.done = TRUE]
    ELSE [g EXCEPT !.data = Some(d)]

\* cube_dist.init_tensor_parallel(size, seed): the tensor-parallel groups are made, of
\* the size given (None when --tp_size was not).
init_tensor_parallel(g, size) == [g EXCEPT !.tensor = Some(size)]

\* initialize_distributed, from the division to the end.
InitializeDistributed ==
    /\ ~pg.done
    /\ pg' =
          IF pg.tensor_parallel_size = Some(0)
          THEN [pg EXCEPT !.raised = "ZeroDivisionError", !.done = TRUE]
          ELSE LET d == data_parallel_size(pg.world_size, pg.tensor_parallel_size)
                   g == init_data_parallel(pg, d)
               IN  IF g.done THEN g
                   ELSE IF pg.tensor_parallel \notin ALLOWED_MODES
                   THEN [g EXCEPT !.raised = "AssertionError", !.done = TRUE]
                   ELSE IF pg.tensor_parallel # None
                   THEN [init_tensor_parallel(g, pg.tensor_parallel_size)
                            EXCEPT !.done = TRUE]
                   ELSE [g EXCEPT !.done = TRUE]
    /\ UNCHANGED <<session_vars, dist, clock, handles, calls, nest, issue01, last,
                   driver_vars, dp, opt>>

\* ------------------------------------------------- the optimizer of _train
\* The condition of train.py:126, `(i + 1) % args.gradient_accumulation or
\* i + 1 == num_steps`: a non-zero remainder counts as true.
steps_optimizer(i, k, n) == ((i + 1) % k # 0) \/ (i + 1 = n)

\* What one iteration of _train's loop calls after the forward pass, in order.
iteration_ops(o, i, n) ==
    << "backward" >>
    \o (IF ~steps_optimizer(i, o.gradient_accumulation, n) THEN << >>
        ELSE (IF o.scaler THEN << "unscale_" >> ELSE << >>)
             \o (IF o.gradient_clipping THEN << "clip_grad_norm" >> ELSE << >>)
             \o << "step" >>
             \o (IF o.scaler THEN << "update" >> ELSE << >>))
    \o << "lr_scheduler.step" >>

Has(ops, name) == \E j \in DOMAIN ops : ops[j] = name

\* The optimizer before the loop, for --gradient_accumulation k, with or without a
\* GradScaler and with gradient_clipping > 0 or not.
NoOpt(k, scaler, clipping) ==
    [gradient_accumulation |-> k, scaler |-> scaler, gradient_clipping |-> clipping,
     backward |-> {}, stepped |-> {}, ops |-> << >>]

\* The scenario of one process of a group of four: one blocking all_reduce of a tensor
\* of 1024 elements of 4 bytes.
Scenario == [P |-> 4, tensor |-> [element_size |-> 4, numel |-> 1024]]

ScenarioCall ==
    /\ Api
    /\ \E d \in 0..(MaxClock - clock) :
          Collective("all_reduce", Scenario.P, << Scenario.tensor >>, FALSE, FALSE, d)
    /\ UNCHANGED rest_vars

\* The profiler's methods called directly, in any order: new() as a wrapper calls it,
\* finish() as a wrapper or a handle's wait() calls it, reset().
MNew ==
    /\ Api
    /\ calls < MaxCalls
    /\ calls' = calls + 1
    /\ SetSession(new(Session, comm_vol("all_reduce", MaxP, UnitPayload), clock))
    /\ last' = [NoLast EXCEPT !.op = "new"]
    /\ UNCHANGED <<dist, clock, handles, nest, issue01, rest_vars>>

MFinish ==
    /\ Api
    /\ running_ops > -MaxWaits
    /\ SetSession(finish(Session, clock))
    /\ last' = [NoLast EXCEPT !.op = "finish",
                              !.raised = IF finish_raises(Session) THEN "TypeError"
                                         ELSE "none"]
    /\ UNCHANGED <<dist, clock, handles, calls, nest, issue01, rest_vars>>

MReset ==
    /\ Api
    /\ SetSession(reset(Session))
    /\ last' = [NoLast EXCEPT !.op = "reset", !.w = "reset"]
    /\ UNCHANGED <<dist, clock, handles, calls, nest, issue01, rest_vars>>

InitProfiler ==
    /\ running_ops = 0
    /\ total_cnt = 0
    /\ total_vol = RZero
    /\ total_time = 0
    /\ start_time = None
    /\ dist = stop_bindings
    /\ clock = 0
    /\ handles = << >>
    /\ calls = 0
    /\ nest = 0
    /\ issue01 = None
    /\ last = NoLast
    /\ step = 0
    /\ num_steps = 0

Init ==
    /\ InitProfiler
    /\ dp = NoData
    /\ opt = NoOpt(1, FALSE, FALSE)
    /\ pg = NoGroups
    /\ pc = "api"
    /\ env = [use_comm_profiler |-> TRUE, rank0 |-> TRUE]

\* ------------------------------------------------------ benchmark/train.py
\* What `_, comm_vol, comm_time = comm_profiler.stop()` does with stop()'s value:
\* unpacking anything but a sequence of three raises TypeError.
unpack_raises(ret) == Len(ret) # 3

\* _train up to its batch loop: comm_profiler.reset(); comm_profiler.start()
TrainEnter ==
    /\ pc = "train_enter"
    /\ \E n \in 0..MaxSteps : num_steps' = n
    /\ step' = 0
    /\ pc' = "train_loop"
    /\ IF env.use_comm_profiler
       THEN /\ DoReset
            /\ DoStart
            /\ last' = [NoLast EXCEPT !.op = "enter", !.fn = "_train", !.w = "started"]
       ELSE /\ last' = [NoLast EXCEPT !.op = "enter", !.fn = "_train"]
            /\ UNCHANGED <<session_vars, dist, clock, handles, calls, nest, issue01>>
    /\ UNCHANGED <<env, dp, opt, pg>>

\* One iteration of _train's loop: the engine's forward and backward passes issue a
\* blocking collective through the dist entry point; a failure leaves the loop.
TrainStep ==
    /\ pc = "train_loop"
    /\ step < num_steps
    /\ \E prim \in Prims, fails \in BOOLEAN, d \in 0..(MaxClock - clock) :
          /\ Collective(prim, MaxP, UnitPayload, FALSE, fails, d)
          /\ pc' = IF fails THEN "train_abort" ELSE "train_loop"
          /\ opt' = IF fails THEN opt
                    ELSE LET ops == iteration_ops(opt, step, num_steps)
                         IN  [opt EXCEPT
                                !.backward = @ \cup {step},
                                !.stepped = IF Has(ops, "step") THEN @ \cup {step} ELSE @,
                                !.ops = ops]
    /\ step' = step + 1
    /\ UNCHANGED <<num_steps, env, dp, pg>>

\* An iteration of _train's loop raises outside any collective (data, model, loss).
TrainFault ==
    /\ pc = "train_loop"
    /\ step < num_steps
    /\ pc' = "train_abort"
    /\ UNCHANGED <<session_vars, dist, clock, handles, calls, nest, issue01, last,
                   step, num_steps, env, dp, opt, pg>>

\* The exception leaves _train: no handler, no finally.
TrainAbort ==
    /\ pc = "train_abort"
    /\ pc' = "raised"
    /\ last' = [NoLast EXCEPT !.op = "exit", !.fn = "_train", !.raised = "Exception"]
    /\ UNCHANGED <<session_vars, dist, clock, handles, calls, nest, issue01,
                   step, num_steps, env, dp, opt, pg>>

\* _train after its loop: _, comm_vol, comm_time = comm_profiler.stop(), then the report.
TrainFinish ==
    /\ pc = "train_loop"
    /\ step = num_steps
    /\ IF env.use_comm_profiler
       THEN /\ DoStop
            /\ last' = [NoLast EXCEPT
                          !.op = "exit", !.fn = "_train",
                          !.ret = stop_result(Session),
                          !.raised = IF unpack_raises(stop_result(Session))
                                     THEN "TypeError" ELSE "none",
                          !.w = IF last.w = "started" THEN "stopped" ELSE "none"]
            /\ pc' = IF unpack_raises(stop_result(Session)) THEN "raised"
                     ELSE "test_enter"
       ELSE /\ last' = [NoLast EXCEPT !.op = "exit", !.fn = "_train"]
            /\ pc' = "test_enter"
            /\ UNCHANGED <<dist, nest>>
    /\ UNCHANGED <<session_vars, clock, handles, calls, issue01, step, num_steps, env, dp, opt, pg>>

\* _test up to its batch loop: comm_profiler.reset(); comm_profiler.start()
TestEnter ==
    /\ pc = "test_enter"
    /\ \E n \in 0..MaxSteps : num_steps' = n
    /\ step' = 0
    /\ pc' = "test_loop"
    /\ IF env.use_comm_profiler
       THEN /\ DoReset
            /\ DoStart
            /\ last' = [NoLast EXCEPT !.op = "enter", !.fn = "_test", !.w = "started"]
       ELSE /\ last' = [NoLast EXCEPT !.op = "enter", !.fn = "_test"]
            /\ UNCHANGED <<session_vars, dist, clock, handles, calls, nest, issue01>>
    /\ UNCHANGED <<env, dp, opt, pg>>

\* One iteration of _test's loop: the forward pass, then on rank 0 the postfix, which
\* reads the undefined name world_size (NameError).
TestStep ==
    /\ pc = "test_loop"
    /\ step < num_steps
    /\ \E prim \in Prims, fails \in BOOLEAN, d \in 0..(MaxClock - clock) :
          /\ Collective(prim, MaxP, UnitPayload, FALSE, fails, d)
          /\ pc' = IF fails \/ env.rank0 THEN "test_abort" ELSE "test_loop"
    /\ step' = step + 1
    /\ UNCHANGED <<num_steps, env, dp, opt, pg>>

\* The exception leaves _test: no handler, no finally.
TestAbort ==
    /\ pc = "test_abort"
    /\ pc' = "raised"
    /\ last' = [NoLast EXCEPT !.op = "exit", !.fn = "_test", !.raised = "Exception"]
    /\ UNCHANGED <<session_vars, dist, clock, handles, calls, nest, issue01,
                   step, num_steps, env, dp, opt, pg>>

\* _test after its loop: it reads the undefined name mem_monitor (NameError) and
\* never reaches a comm_profiler.stop(); there is none in _test.
TestFinish ==
    /\ pc = "test_loop"
    /\ step = num_steps
    /\ pc' = "raised"
    /\ last' = [NoLast EXCEPT !.op = "exit", !.fn = "_test", !.raised = "NameError"]
    /\ UNCHANGED <<session_vars, dist, clock, handles, calls, nest, issue01,
                   step, num_steps, env, dp, opt, pg>>

\* train(): comm_profiler is a CommProfiler or None, on rank 0 or another rank.
InitTrain ==
    /\ InitProfiler
    /\ dp = NoData
    /\ opt \in {NoOpt(k, scaler, clipping) :
                  k \in 1..MaxGA, scaler \in BOOLEAN, clipping \in BOOLEAN}
    /\ pg = NoGroups
    /\ pc = "train_enter"
    /\ env \in [use_comm_profiler : BOOLEAN, rank0 : BOOLEAN]

NextTrain ==
    \/ TrainEnter \/ TrainStep \/ TrainFault \/ TrainAbort \/ TrainFinish
    \/ TestEnter \/ TestStep \/ TestAbort \/ TestFinish \/ Tick
SpecTrain == InitTrain /\ [][NextTrain]_vars

\* Collectives of every payload, each handle awaited at most once; the clock stands.
Next == Call \/ WaitOnce \/ Reset \/ Start \/ Stop
Spec == Init /\ [][Next]_vars

\* Any use of the profiler's interface, misuse included, with time passing.
NextTimed == TimedCall \/ Wait \/ Drop \/ Reset \/ Start \/ Stop \/ Tick
SpecTimed == Init /\ [][NextTimed]_vars

\* A handle is awaited at most once or discarded; reset() with no handle pending.
NextOnce == TimedCall \/ WaitOnce \/ Drop \/ ResetQuiet \/ Start \/ Stop \/ Tick
SpecOnce == Init /\ [][NextOnce]_vars

\* Use by the contract: a handle is awaited at most once, reset() between windows.
NextProtocol == TimedCall \/ WaitOnce \/ Drop \/ ResetIdle \/ Start \/ Stop \/ Tick
SpecProtocol == Init /\ [][NextProtocol]_vars

\* One process of the four of the scenario.
NextScenario == ScenarioCall \/ Reset \/ Start \/ Stop \/ Tick
SpecScenario == Init /\ [][NextScenario]_vars

\* A handle is awaited at most once; reset() at any moment.
NextResetAny == TimedCall \/ WaitOnce \/ Reset \/ Start \/ Stop \/ Tick
SpecResetAny == Init /\ [][NextResetAny]_vars

\* new(), finish() and reset() in any order and number.
NextMethods == MNew \/ MFinish \/ MReset \/ Tick
SpecMethods == Init /\ [][NextMethods]_vars

\* One process of a job of up to MaxWorld processes, with any --tp and --tp_size.
InitGroups ==
    /\ InitProfiler
    /\ dp = NoData
    /\ opt = NoOpt(1, FALSE, FALSE)
    /\ pc = "api"
    /\ env = [use_comm_profiler |-> FALSE, rank0 |-> TRUE]
    /\ pg \in {Config(w, tp, tps) :
                 w \in 1..MaxWorld, tp \in Modes,
                 tps \in {None} \cup {Some(n) : n \in 0..MaxWorld}}

NextGroups == InitializeDistributed
SpecGroups == InitGroups /\ [][NextGroups]_vars

\* A data-parallel group of any size up to MaxP; the profiler is not started.
InitData ==
    /\ InitProfiler
    /\ pc = "api"
    /\ env = [use_comm_profiler |-> FALSE, rank0 |-> TRUE]
    /\ dp \in {DataInit(P) : P \in 1..MaxP}
    /\ opt = NoOpt(1, FALSE, FALSE)
    /\ pg = NoGroups

NextAcc == AccForward \/ AccReset \/ AccValue
SpecAcc == InitData /\ [][NextAcc]_vars

NextPpl == PplForward \/ PplReset \/ PplValue
SpecPpl == InitData /\ [][NextPpl]_vars

NextReduce == Assign \/ ReduceSum \/ ReduceMean
SpecReduce == InitData /\ [][NextReduce]_vars

\* ------------------------------------------------------------------ claims
\* The volume the specification gives for one call, as a test of the amount `delta`
\* by which total_vol grew: 2*(P-1)/P*B, (P-1)/P*sum(b_i), or B.
ClaimedVolume(delta, prim, P, ts) ==
    CASE prim = "all_reduce" -> delta.num * P = 2 * (P - 1) * Bytes(ts[1]) * delta.den
      [] prim \in ListPrims -> delta.num * P = (P - 1) * SumBytes(ts) * delta.den
      [] prim \in {"broadcast", "reduce"} -> delta.num = Bytes(ts[1]) * delta.den

\* A step that is one call of a wrapped entry point.
WrappedCallStep == calls' = calls + 1 /\ last'.wrapped

\* C1: while the wrappers are installed, every call of a wrapped primitive, blocking
\* or async_op, adds exactly 1 to total_cnt and adds to total_vol exactly
\* 2*(P-1)/P*B for all_reduce, (P-1)/P*sum(b_i) for reduce_scatter and all_gather,
\* and B for broadcast and reduce.
C1_WrappedCallAccounting ==
    [][WrappedCallStep =>
          /\ total_cnt' = total_cnt + 1
          /\ ClaimedVolume(RSub(total_vol', total_vol), last'.prim, last'.P,
                           last'.tensors)]_vars

\* C1: an async_op reduce_scatter on the largest group was recorded as the second call.
C1_Witness ==
    /\ last.op = "call" /\ last.wrapped /\ last.async_op
    /\ last.prim = "reduce_scatter" /\ last.P = MaxP
    /\ total_cnt = 2 /\ total_vol # RZero

\* C2: stop() returns the triple (total_cnt, total_vol, total_time) of the window it
\* closes, so that _train, having finished its loop, unpacks three values from it.
C2_StopReturnsTriple ==
    (last.op = "exit" /\ last.fn = "_train" /\ env.use_comm_profiler
        /\ last.raised # "Exception")
    => /\ last.ret = <<total_cnt, total_vol, total_time>>
       /\ last.raised = "none"

\* C3: from the same session and for the same payload, an async_op collective followed
\* by one wait() on its handle leaves the session as the blocking call of the same
\* collective over the same span of time leaves it.
C3_AsyncWaitEqualsSync ==
    [][(handles' # handles /\ last'.op = "wait" /\ last'.first /\ last'.direct) =>
          Session' = wrapper_sync(last.before[1],
                                  comm_vol(last.prim, last.P, last.tensors),
                                  last.t0, clock')]_vars

\* C3: a handle was awaited right after its issue, some time later, and closed the window.
C3_Witness ==
    /\ last.op = "wait" /\ last.first /\ last.direct
    /\ running_ops = 0 /\ start_time = None /\ total_time > 0

\* C4: between resets, total_time changes only at a completion that brings running_ops
\* to 0, and then by exactly the time since the issue that took running_ops from 0 to
\* 1; issues and completions while others are outstanding add nothing.
C4_OnlyOuterSpanTimed ==
    [][(total_time' # total_time /\ last'.op # "reset") =>
          /\ last'.op \in {"call", "wait"}
          /\ running_ops' = 0
          /\ issue01' # None
          /\ total_time' = total_time + (clock' - issue01'[1])]_vars

\* C4: of two overlapping collectives one was awaited, after time had passed, while
\* the other is still outstanding: no time has been added.
C4_Witness ==
    /\ last.op = "wait" /\ running_ops = 1 /\ total_cnt = 2
    /\ \E h \in DOMAIN handles : Pending(h)
    /\ issue01 = Some(0) /\ clock > 0 /\ total_time = 0

\* C5: start_time is set exactly when running_ops > 0; it is set by the issue that
\* takes running_ops from 0 to 1 and cleared by the completion that returns it to 0.
C5_StartTimeIffRunning ==
    [][/\ (start_time' # None) <=> (running_ops' > 0)
       /\ (start_time = None /\ start_time' # None) =>
             (last'.op = "call" /\ running_ops = 0 /\ running_ops' = 1)
       /\ (start_time # None /\ start_time' = None) =>
             (last'.op = "wait" /\ running_ops = 1 /\ running_ops' = 0)]_vars

\* C5: two collectives are outstanding inside one busy window.
C5_Witness == start_time # None /\ running_ops = 2 /\ clock > start_time[1]

\* Some handle was discarded unawaited; the same, issued since the latest reset().
Abandoned == \E h \in DOMAIN handles : handles[h].dropped
AbandonedSinceReset ==
    \E h \in DOMAIN handles : handles[h].dropped /\ ~handles[h].stale

\* C6 as stated: once a handle is never awaited, running_ops is non-zero in every later
\* state and total_time never increases again, whatever follows.
C6_LeakIsPermanent ==
    [][/\ Abandoned' => running_ops' # 0
       /\ Abandoned => total_time' <= total_time]_vars

\* C6 as amended: once a handle is never awaited, running_ops is non-zero and
\* total_time does not change in every later state up to the next reset().
C6_LeakLastsUntilReset ==
    [][/\ AbandonedSinceReset' => running_ops' > 0
       /\ (AbandonedSinceReset /\ AbandonedSinceReset') => total_time' = total_time]_vars

\* C6: after the leak a blocking collective took time and completed; none was added.
C6_Witness ==
    /\ AbandonedSinceReset
    /\ last.op = "call" /\ last.wrapped /\ ~last.async_op /\ last.raised = "none"
    /\ clock > last.t0 /\ total_time = 0

\* C7: with nested start(); start(); stop(); stop(), every collective issued between
\* the outermost start() and the outermost stop() is recorded exactly once, and after
\* the outermost stop() the five entry points are the originals.
C7_NestedWindowRecordsAll ==
    [][/\ (nest > 0 /\ calls' = calls + 1) => total_cnt' = total_cnt + 1
       /\ nest' = 0 => dist' = stop_bindings]_vars

\* C8: on every exit of _train and of _test in which comm_profiler.start() was called,
\* by return or by exception, the five entry points are the originals again.
C8_ExitRestoresBindings ==
    (last.op = "exit" /\ env.use_comm_profiler) => dist = stop_bindings

\* C9: start() and stop() change no field of the session; so reset(), start(), stop()
\* with no collective in between leave count 0, volume 0 and time 0.
C9_StartStopFrame ==
    [][/\ (dist' # dist \/ nest' # nest \/ last'.op \in {"start", "stop"}) =>
             UNCHANGED session_vars
       /\ last'.w = "stopped" =>
             (total_cnt' = 0 /\ total_vol' = RZero /\ total_time' = 0
              /\ running_ops' = 0 /\ start_time' = None)]_vars

\* C9: reset(), start(), stop() came after collectives that had taken time.
C9_Witness == last.op = "stop" /\ last.w = "stopped" /\ calls > 0 /\ clock > 0

\* C10 as stated: at group size 1 each of the five wrapped primitives records volume 0.
C10_AllZeroAtOne ==
    [][(WrappedCallStep /\ last'.P = 1) => total_vol' = total_vol]_vars

\* C10 as amended: at group size 1 all_reduce, reduce_scatter and all_gather record
\* volume 0; broadcast and reduce record the tensor's byte size.
C10_ZeroAtOneButTransfers ==
    [][(WrappedCallStep /\ last'.P = 1) =>
          IF last'.prim \in {"broadcast", "reduce"}
          THEN RSub(total_vol', total_vol) = RInt(Bytes(last'.tensors[1]))
          ELSE total_vol' = total_vol]_vars

\* C10: on a group of one a reduce_scatter was recorded after a broadcast.
C10_Witness ==
    /\ last.op = "call" /\ last.wrapped /\ last.P = 1 /\ last.prim = "reduce_scatter"
    /\ total_cnt = 2 /\ total_vol = RInt(Bytes(last.tensors[1]))

\* A step in which every rank of the group called value() of the metric in use.
ValueStep == dp'.colls = dp.colls + 1 /\ dp'.op \in {"acc_value", "ppl_value"}

\* C11: value() of Accuracy and of Perplexity leaves total_correct, total_samples, cnt
\* and total_loss of every rank as they were, for every group size, so a second value()
\* right after the first returns on every rank what the first returned.
C11_ValueIsReadOnly ==
    [][ValueStep =>
          /\ dp'.acc = dp.acc
          /\ dp'.ppl = dp.ppl
          /\ dp.op = dp'.op => dp'.ret = dp.ret]_vars

GroupCorrect == IntSum([r \in 1..dp.P |-> dp.acc[r].total_correct], dp.P)
GroupSamples == IntSum([r \in 1..dp.P |-> dp.acc[r].total_samples], dp.P)

\* C12: whatever each rank has accumulated since its reset(), Accuracy.value() returns
\* on every rank the same number, the group's total_correct over the group's
\* total_samples.
C12_AccuracyIsGroupRatio ==
    dp.op = "acc_value" =>
        \A r \in 1..dp.P :
           /\ dp.ret[r] = dp.ret[1]
           /\ GroupSamples > 0 =>
                 /\ dp.ret[r].kind = "num"
                 /\ dp.ret[r].num * GroupSamples = GroupCorrect * dp.ret[r].den

\* C12: two ranks hold 3 of 4 and 1 of 4 correct; both obtained 4/8.
C12_Witness ==
    /\ dp.P = 2 /\ dp.op = "acc_value"
    /\ dp.acc[1] = [total_correct |-> 3, total_samples |-> 4]
    /\ dp.acc[2] = [total_correct |-> 1, total_samples |-> 4]
    /\ dp.ret[1] = Num(Rat(4, 8)) /\ dp.ret[2] = Num(Rat(4, 8))

\* The group's sum of total_loss at the moment value() is called.
GroupLoss == SumOver([r \in 1..dp.P |-> dp.ppl[r].total_loss], dp.P)

\* C13: forward() adds exactly 1 to cnt and exactly the given loss to total_loss, and
\* Perplexity.value() returns on a rank with cnt > 0 the value exp(S / (cnt * P)), S
\* the group's sum of total_loss and P the group size.
C13_PerplexityFormula ==
    [][/\ \A r \in 1..dp.P :
             dp'.ppl[r].cnt \notin {dp.ppl[r].cnt, 0} =>
                /\ dp'.ppl[r].cnt = dp.ppl[r].cnt + 1
                /\ RSub(dp'.ppl[r].total_loss, dp.ppl[r].total_loss)
                      \in {RInt(loss) : loss \in Losses}
                /\ \A q \in 1..dp.P : q # r => dp'.ppl[q] = dp.ppl[q]
       /\ (ValueStep /\ dp'.op = "ppl_value") =>
             \A r \in 1..dp.P :
                dp.ppl[r].cnt > 0 =>
                   /\ dp'.ret[r].kind = IF GroupLoss = RZero THEN "num" ELSE "exp"
                   /\ GroupLoss # RZero =>
                         dp'.ret[r].num * dp.ppl[r].cnt * dp.P * GroupLoss.den
                            = GroupLoss.num * dp'.ret[r].den]_vars

\* C13: a group of one after forward() with losses 1 and 2: value() gave exp(3/2).
C13_Witness ==
    /\ dp.P = 1 /\ dp.op = "ppl_value"
    /\ dp.ppl[1] = [cnt |-> 2, total_loss |-> RInt(3)]
    /\ dp.ret[1] = [kind |-> "exp", num |-> 3, den |-> 2]

\* A value() that handed a float to its caller, nan and the infinities included.
Returned(v) == v.kind \in {"num", "nan", "inf", "exp"}

\* C14: Perplexity.value() on a rank whose cnt is 0 (no forward() since reset()) fails:
\* the caller gets an error and no value.
C14_ValueBeforeForwardFails ==
    dp.op = "ppl_value" =>
        \A r \in 1..dp.P : dp.ppl[r].cnt = 0 => ~Returned(dp.ret[r])

\* A step in which every rank called the reducer `op`.
ReducerStep(op) == dp'.op = op /\ dp' # dp

\* C15: on a group of one, _data_parallel_sum and _data_parallel_mean return their
\* input, leave it as it was and issue no collective.
C15_ReducersIdentityAtOne ==
    [][(dp.P = 1 /\ (ReducerStep("sum") \/ ReducerStep("mean"))) =>
          /\ dp'.ret[1] = Num(dp.t[1])
          /\ dp'.t = dp.t
          /\ dp'.sent = << >>
          /\ dp'.colls = dp.colls]_vars

\* C15: on a group of one the mean of 2 was taken: 2, with no collective so far.
C15_Witness ==
    /\ dp.P = 1 /\ dp.op = "mean" /\ dp.colls = 0
    /\ dp.t[1] = RInt(2) /\ dp.ret[1] = Num(RInt(2))

GroupScalar == SumOver(dp.t, dp.P)

\* C16: on a group of P > 1, _data_parallel_mean hands the scalar itself to the SUM
\* all_reduce and returns on every rank the group's sum divided by P, which is x when
\* every rank holds the same x.
C16_MeanDividesAfterSum ==
    [][(dp.P > 1 /\ dp'.op = "mean" /\ dp'.colls = dp.colls + 1) =>
          /\ dp'.sent = dp.t
          /\ \A r \in 1..dp.P :
                /\ dp'.ret[r].kind = "num"
                /\ dp'.ret[r].num * dp.P * GroupScalar.den
                      = GroupScalar.num * dp'.ret[r].den
                /\ (\A q \in 1..dp.P : dp.t[q] = dp.t[r]) => dp'.ret[r] = Num(dp.t[r])]_vars

\* C16: every rank of a group of more than one held 2 and obtained the mean 2.
C16_Witness ==
    /\ dp.P > 1 /\ dp.op = "mean"
    /\ \A r \in 1..dp.P : dp.sent[r] = RInt(2) /\ dp.ret[r] = Num(RInt(2))

\* The step of the scenario: right after reset() and start(), one blocking all_reduce
\* of the scenario's tensor on the group of four returns.
ScenarioStep ==
    /\ last.w = "started" /\ last'.op = "call" /\ last'.wrapped
    /\ last'.prim = "all_reduce" /\ last'.P = 4 /\ ~last'.async_op
    /\ last'.tensors = << [element_size |-> 4, numel |-> 1024] >>

\* C17 as stated: after the scenario each process's profiler holds total_cnt = 4 and
\* total_vol = 24576.
C17_ProcessReportsGroupTotals ==
    [][ScenarioStep => (total_cnt' = 4 /\ total_vol' = RInt(24576))]_vars

\* C17 as amended: after the scenario each process's profiler holds total_cnt = 1 and
\* total_vol = 2*(3/4)*4096 = 6144; 4 and 24576 are the sums over the four processes.
C17_ProcessReportsOwnCall ==
    [][ScenarioStep =>
          /\ total_cnt' = 1 /\ total_vol' = RInt(6144)
          /\ 4 * total_cnt' = 4 /\ RMul(RInt(4), total_vol') = RInt(24576)]_vars

\* C17: the scenario ran in a second window, after an earlier call, and took time.
C17_Witness ==
    /\ last.op = "call" /\ last.P = 4 /\ last.wrapped /\ calls = 2
    /\ total_cnt = 1 /\ total_vol = RInt(6144) /\ total_time > 0

\* C18: running_ops >= 0 and total_cnt >= running_ops in every state, whatever the
\* interleaving of blocking collectives, async_op issues, one wait() per handle and
\* reset() at any moment.
C18_RunningOpsNonNegative == running_ops >= 0 /\ total_cnt >= running_ops

\* C19: whatever the order and number of new(), finish() and reset() calls, start_time
\* is None only with running_ops <= 0, so no finish() that brings running_ops to 0
\* subtracts an unset start_time.
C19_FinishFindsStartTime ==
    /\ start_time = None => running_ops <= 0
    /\ ~finish_raises(Session)
    /\ last.raised # "TypeError"

\* C19: after a reset() with an operation outstanding, finish() ran more often than
\* new() did since; start_time is set while running_ops is negative.
C19_Witness ==
    /\ last.op = "finish" /\ running_ops < 0 /\ start_time # None /\ total_cnt = 1

\* A step in which the primitive of a wrapped blocking call raised.
FailedSyncStep ==
    /\ WrappedCallStep /\ ~last'.async_op /\ last'.raised = "CommError"

\* C20: when the primitive raises in a wrapped blocking call, new() was applied and
\* finish() is not: running_ops is one higher, total_cnt and total_vol include the
\* call, total_time is as before and start_time is set; within a session start_time
\* is cleared only by a completion that brings running_ops to 0.
C20_FailedCallStaysOpen ==
    [][/\ FailedSyncStep =>
             /\ running_ops' = running_ops + 1
             /\ total_cnt' = total_cnt + 1
             /\ total_vol' = RAdd(total_vol, comm_vol(last'.prim, last'.P, last'.tensors))
             /\ total_time' = total_time
             /\ start_time' # None
             /\ start_time # None => start_time' = start_time
       /\ (start_time # None /\ start_time' = None /\ last'.op # "reset") =>
             (last'.op \in {"call", "wait"} /\ running_ops' = 0)]_vars

\* C20: a blocking call failed after time had passed in an open window; the window is
\* still open and nothing was timed.
C20_Witness ==
    /\ last.op = "call" /\ last.wrapped /\ ~last.async_op /\ last.raised = "CommError"
    /\ running_ops = 2 /\ start_time = Some(0) /\ clock > 0 /\ total_time = 0

\* C21: in _train with gradient_accumulation = k and num_steps = N, of the iterations
\* whose backward pass ran, the optimizer step runs at exactly those i with (i+1) a
\* multiple of k or i+1 = N, after that iteration's backward pass; with k = 1, at
\* every iteration.
C21_OptimizerStepSchedule ==
    /\ \A i \in opt.backward :
          (i \in opt.stepped) <=>
             ((i + 1) % opt.gradient_accumulation = 0 \/ i + 1 = num_steps)
    /\ opt.gradient_accumulation = 1 => opt.stepped = opt.backward
    /\ \A j \in DOMAIN opt.ops :
          opt.ops[j] = "step" => \E b \in 1..(j - 1) : opt.ops[b] = "backward"

\* The tensor-parallel size of a configuration: 1 when --tp_size is not given.
TensorSize == IF pg.tensor_parallel_size = None THEN 1 ELSE pg.tensor_parallel_size[1]

\* C22: for every configuration initialize_distributed accepts, the data-parallel size
\* d is world_size without --tp_size and world_size // tensor_parallel_size with it,
\* d * tensor_parallel_size = world_size, and tensor-parallel groups are made exactly
\* when a tensor-parallel mode is given.
C22_DataTimesTensorIsWorld ==
    (pg.done /\ pg.raised = "none") =>
        /\ pg.data = Some(IF pg.tensor_parallel_size = None THEN pg.world_size
                          ELSE pg.world_size \div pg.tensor_parallel_size[1])
        /\ pg.data[1] * TensorSize = pg.world_size
        /\ (pg.tensor # None) <=> (pg.tensor_parallel # None)
====
